---------------------------- MODULE Spec2Model ----------------------------
(***************************************************************************)
(* Content-addressed file storage of a directed graph                      *)
(* (file/src/file_storage.rs).                                             *)
(*                                                                         *)
(* The file system under the one base directory is the shared state.  A   *)
(* call of save_graph_as, read_graph or load_graph is a future; it        *)
(* advances one tokio_fs call (create_dir_all, write, read) at a time, and *)
(* the calls of different futures, and of the branches of one join or     *)
(* join_all, interleave freely.  Each tokio_fs call is one atomic step.    *)
(*                                                                         *)
(* SHA-256 is modelled as an injective function of the content (no        *)
(* collisions); the 32 bytes of a digest are one token of a content.       *)
(***************************************************************************)
EXTENDS Naturals, Sequences, FiniteSets

(***************************************************************************)
(* Bounds of the model.                                                    *)
(***************************************************************************)
MaxVertexId == 2

MaxEdges == 1

\* Edges of the graph in the run of one save alone.
MaxEdgesAlone == 2

\* Vertices of a graph in the runs where saves overlap and I/O calls fail or
\* a load follows.
MaxVerticesRacing == 1

MaxNames == 1

MaxCalls == 2

MaxSaves == 2

MaxReads == 1

MaxFaults == 1

VertexIds == 1..MaxVertexId

AllEdges == VertexIds \X VertexIds

Names == 1..MaxNames

Calls == 1..MaxCalls

(***************************************************************************)
(* Sequences that enumerate a set once: the orders in which a HashSet may  *)
(* be iterated.                                                            *)
(***************************************************************************)
Range(s) == {s[i] : i \in DOMAIN s}

Perms(S) ==
    {s \in [1..Cardinality(S) -> S] : Range(s) = S}

(***************************************************************************)
(* DirectedGraph (histo_graph_core): a set of vertices and a set of edges; *)
(* add_edge also inserts the two endpoints, which the tests               *)
(* test_write_and_read_graph and test_read_and_write_named_graph rely on   *)
(* (vertex 30 reaches the store only as an endpoint of Edge(28, 30)).      *)
(***************************************************************************)
new == [vertices |-> {}, edges |-> {}]

add_vertex(graph, v) == [graph EXCEPT !.vertices = @ \cup {v}]

add_edge(graph, e) ==
    [vertices |-> graph.vertices \cup {e[1], e[2]},
     edges    |-> graph.edges \cup {e}]

RECURSIVE add_all_vertices(_, _)
add_all_vertices(graph, vs) ==
    IF vs = <<>> THEN graph
    ELSE add_all_vertices(add_vertex(graph, Head(vs)), Tail(vs))

RECURSIVE add_all_edges(_, _)
add_all_edges(graph, es) ==
    IF es = <<>> THEN graph
    ELSE add_all_edges(add_edge(graph, Head(es)), Tail(es))

\* The graphs of at most n edges a caller can build with add_vertex and
\* add_edge.
GraphsUpTo(n) ==
    {add_all_edges(add_all_vertices(new, vs), es) :
        vs \in UNION {Perms(V) : V \in SUBSET VertexIds},
        es \in UNION {Perms(E) : E \in {F \in SUBSET AllEdges : Cardinality(F) <= n}}}

Graphs == GraphsUpTo(MaxEdges)

(***************************************************************************)
(* Contents.  A content is a sequence of tokens: [b |-> n] is one byte,    *)
(* [h |-> c] the 32 bytes of the digest of content c.                      *)
(***************************************************************************)
RECURSIVE le_byte(_, _)
le_byte(n, i) == IF i = 1 THEN n % 256 ELSE le_byte(n \div 256, i - 1)

\* bincode of a u64: eight bytes, little endian.
serialize_u64(n) == [i \in 1..8 |-> [b |-> le_byte(n, i)]]

IsByte(t) == DOMAIN t = {"b"}

IsDigest(t) == DOMAIN t = {"h"}

RECURSIVE le_value(_)
le_value(bytes) ==
    IF bytes = <<>> THEN 0
    ELSE Head(bytes).b + 256 * le_value(Tail(bytes))

Ok(v) == [ok |-> TRUE, val |-> v]

Err(e) == [ok |-> FALSE, err |-> e]

BincodeError == [kind |-> "Bincode"]

\* bincode::deserialize::<u64>: eight bytes are needed, trailing bytes are allowed.
deserialize_u64(content) ==
    IF Len(content) >= 8 /\ \A i \in 1..8 : IsByte(content[i])
    THEN Ok(le_value(SubSeq(content, 1, 8)))
    ELSE Err(BincodeError)

\* Hash::from: the SHA-256 digest of the content.
HashFrom(content) == [sha256 |-> content]

\* The 32 bytes of a Hash as bincode writes them.
serialize_hash(hash) == <<[h |-> hash.sha256]>>

\* Hash::to_string: lowercase hex of the digest, the file name of an object.
to_string(hash) == [hex |-> hash.sha256]

File(content) == [content |-> content, hash |-> HashFrom(content)]

vertex_to_file(vertex_id) == File(serialize_u64(vertex_id))

\* edge_to_file that hashes each endpoint from one byte, not from the eight
\* bytes vertex_to_file writes.
edge_to_file_short_endpoints(edge) ==
    LET v_hash_0 == HashFrom(<<[b |-> edge[1]]>>)
        v_hash_1 == HashFrom(<<[b |-> edge[2]]>>)
    IN  File(serialize_hash(v_hash_0) \o serialize_hash(v_hash_1))

\* edge_to_file with the first endpoint hashed for both ends.
edge_to_file_one_endpoint(edge) ==
    LET v_hash_0 == vertex_to_file(edge[1]).hash
    IN  File(serialize_hash(v_hash_0) \o serialize_hash(v_hash_0))

edge_to_file(edge) ==
    LET v_hash_0 == vertex_to_file(edge[1]).hash
        v_hash_1 == vertex_to_file(edge[2]).hash
    IN  File(serialize_hash(v_hash_0) \o serialize_hash(v_hash_1))

RECURSIVE serialize_hashes(_)
serialize_hashes(hash_vec) ==
    IF hash_vec = <<>> THEN <<>>
    ELSE serialize_hash(Head(hash_vec)) \o serialize_hashes(Tail(hash_vec))

\* The manifest with the last hash first.
hash_vec_to_file_reversed(hash_vec) ==
    LET reversed == [i \in 1..Len(hash_vec) |-> hash_vec[Len(hash_vec) + 1 - i]]
    IN  File(serialize_u64(Len(hash_vec)) \o serialize_hashes(reversed))

\* The manifest with its hashes put in one fixed order.
hash_vec_to_file_sorted(hash_vec) ==
    LET sorted == CHOOSE q \in [1..Len(hash_vec) -> Range(hash_vec)] :
                     Range(q) = Range(hash_vec)
    IN  File(serialize_u64(Len(hash_vec)) \o serialize_hashes(sorted))

\* bincode of a Vec<Hash>: the length as a u64, then the hashes.
hash_vec_to_file(hash_vec) ==
    File(serialize_u64(Len(hash_vec)) \o serialize_hashes(hash_vec))

\* The GraphHash written with its two hashes in the other order.
serialize_graph_hash_swapped(graph_hash) ==
    serialize_hash(graph_hash.edge_vec_hash) \o serialize_hash(graph_hash.vertex_vec_hash)

\* bincode of a GraphHash: the two hashes.
serialize_graph_hash(graph_hash) ==
    serialize_hash(graph_hash.vertex_vec_hash) \o serialize_hash(graph_hash.edge_vec_hash)

\* file_to_vertex that starts one byte late.
file_to_vertex_shifted(content) ==
    IF Len(content) >= 8 THEN Ok(le_value(SubSeq(content, 2, 8))) ELSE Err(BincodeError)

file_to_vertex(content) == deserialize_u64(content)

file_to_hash_edge(content) ==
    IF Len(content) >= 2 /\ IsDigest(content[1]) /\ IsDigest(content[2])
    THEN Ok([from |-> HashFrom(content[1].h), to |-> HashFrom(content[2].h)])
    ELSE Err(BincodeError)

file_to_hash_vec(content) ==
    LET n == deserialize_u64(content)
    IN  IF ~n.ok THEN n
        ELSE IF Len(content) >= 8 + n.val
                /\ \A i \in 1..n.val : IsDigest(content[8 + i])
             THEN Ok([i \in 1..n.val |-> HashFrom(content[8 + i].h)])
             ELSE Err(BincodeError)

deserialize_graph_hash(content) ==
    IF Len(content) >= 2 /\ IsDigest(content[1]) /\ IsDigest(content[2])
    THEN Ok([vertex_vec_hash |-> HashFrom(content[1].h),
             edge_vec_hash   |-> HashFrom(content[2].h)])
    ELSE Err(BincodeError)


(***************************************************************************)
(* State.                                                                  *)
(*   fs       the files of each sub-directory of the base directory:       *)
(*            fs[dir] maps a file name to its content                      *)
(*   dirs     the directories that exist                                   *)
(*   call     the futures in flight, one per slot                          *)
(*   budget   calls and I/O failures the run may still start, the edges    *)
(*            and vertices a saved graph may have, and whether the run     *)
(*            keeps, per save,                                             *)
(*            the order in which the writes of a join_all complete and the *)
(*            names and manifests stored when the save started (history)   *)
(*   returned history: [graph, root] of every write_graph that completed   *)
(*   saved    history: per name, the [graph, root] of every save_graph_as  *)
(*            that completed, in completion order                          *)
(***************************************************************************)
VARIABLES fs, dirs, call, budget, returned, saved

vars == <<fs, dirs, call, budget, returned, saved>>

SubDirs == {"vertex", "edge", "vertexvec", "edgevec", "graph"}

Idle == [op |-> "idle"]

NoResult == <<>>

NotFound(dir, name) == [kind |-> "NotFound", dir |-> dir, name |-> name]

IoFailure(dir, name) == [kind |-> "Other", dir |-> dir, name |-> name]

\* The outcomes of one tokio_fs call: it may fail while the run has failures
\* left.  A failed call leaves the file system as it was.
IoOutcomes == IF budget.faults > 0 THEN {"ok", "fail"} ELSE {"ok"}

SpendFault(res) ==
    IF ~res.ok /\ res.err.kind = "Other"
    THEN [budget EXCEPT !.faults = @ - 1] ELSE budget

\* tokio_fs::create_dir_all: the directory and its parents exist afterwards.
create_dir_all(ds, io, dir) ==
    IF io = "fail"
    THEN [res |-> Err(IoFailure(dir, "")), dirs |-> ds]
    ELSE [res |-> Ok(dir), dirs |-> ds \cup {"base", dir}]

\* A write that appends to a file that exists.
fs_write_append(files, ds, io, dir, name, content) ==
    IF dir \notin ds
    THEN [res |-> Err(NotFound(dir, name)), fs |-> files]
    ELSE IF io = "fail"
    THEN [res |-> Err(IoFailure(dir, name)), fs |-> files]
    ELSE [res |-> Ok(name),
          fs  |-> [files EXCEPT ![dir] =
                     [k \in DOMAIN @ \cup {name} |->
                        IF k # name THEN @[k]
                        ELSE IF name \in DOMAIN @ THEN @[k] \o content
                        ELSE content]]]

\* tokio_fs::write: creates or replaces the file; the directory must exist.
fs_write(files, ds, io, dir, name, content) ==
    IF dir \notin ds
    THEN [res |-> Err(NotFound(dir, name)), fs |-> files]
    ELSE IF io = "fail"
    THEN [res |-> Err(IoFailure(dir, name)), fs |-> files]
    ELSE [res |-> Ok(name),
          fs  |-> [files EXCEPT ![dir] =
                     [k \in DOMAIN @ \cup {name} |->
                        IF k = name THEN content ELSE @[k]]]]

\* tokio_fs::read: the content of the file; NotFound when there is none.
fs_read(files, io, dir, name) ==
    IF name \notin DOMAIN files[dir] THEN Err(NotFound(dir, name))
    ELSE IF io = "fail" THEN Err(IoFailure(dir, name))
    ELSE Ok(files[dir][name])

\* write_file_in_dir that names the file by a hash taken before the content
\* was fed to the digest.
write_file_in_dir_stale_hash(files, ds, io, dir, file) ==
    fs_write(files, ds, io, dir, to_string(HashFrom(<<>>)), file.content)

\* write_file_in_dir: the file is named by the hash of its content.
write_file_in_dir(files, ds, io, dir, file) ==
    fs_write(files, ds, io, dir, to_string(file.hash), file.content)

\* read_file_in_dir: the content of the file named by the hash.
read_file_in_dir(files, io, dir, hash) == fs_read(files, io, dir, to_string(hash))

Finish(c, res) == [call EXCEPT ![c].pc = "done", ![c].result = res]

InFlight == {c \in Calls : call[c].op # "idle"}

\* A call may start in slot c: the slot is the first free one, and the run
\* allows one more call in flight.
CanStart(c) ==
    /\ call[c].op = "idle"
    /\ \A d \in Calls : d < c => call[d].op # "idle"
    /\ Cardinality(InFlight) < budget.inflight

InitWith(b) ==
    /\ fs = [d \in SubDirs |-> <<>>]
    /\ dirs = {}
    /\ call = [c \in Calls |-> Idle]
    /\ budget = b
    /\ returned = {}
    /\ saved = [n \in Names |-> <<>>]

\* Calls one after the other, no I/O failure.
Init ==
    InitWith([saves |-> MaxSaves, reads |-> MaxReads, faults |-> 0, inflight |-> 1,
              edges |-> MaxEdges, vertices |-> MaxVertexId, history |-> FALSE])

(***************************************************************************)
(* save_graph_as(base_path, name, graph): write_graph, then the name file. *)
(* vs and es are the orders in which graph.vertices() and graph.edges()    *)
(* iterate; both vectors are collected when the future is built.           *)
(***************************************************************************)
save_graph_as(c) ==
    /\ CanStart(c)
    /\ budget.saves > 0
    /\ budget' = [budget EXCEPT !.saves = @ - 1]
    /\ \E name \in Names,
          graph \in {g \in GraphsUpTo(budget.edges) :
                        Cardinality(g.vertices) <= budget.vertices} :
         \E vs \in Perms(graph.vertices), es \in Perms(graph.edges) :
            call' = [call EXCEPT ![c] =
                       [op |-> "save_graph_as", pc |-> "write_graph",
                        name |-> name, graph |-> graph,
                        vertices |-> vs, edges |-> es,
                        vpc |-> "mkbase", vslots |-> <<>>, vhash |-> NoResult,
                        epc |-> "mkbase", eslots |-> <<>>, ehash |-> NoResult,
                        vorder |-> <<>>, eorder |-> <<>>,
                        before |-> IF budget.history
                                   THEN [d \in {"vertexvec", "edgevec", "graph"} |-> fs[d]]
                                   ELSE <<>>,
                        content |-> NoResult, result |-> NoResult]]
    /\ UNCHANGED <<fs, dirs, returned, saved>>

Writing(c) == call[c].op = "save_graph_as" /\ call[c].pc = "write_graph"

\* write_graph_vertices: create_dir_all(base_path).
write_graph_vertices(c) ==
    /\ Writing(c)
    /\ call[c].vpc = "mkbase"
    /\ \E io \in IoOutcomes :
         LET r == create_dir_all(dirs, io, "base")
         IN  /\ dirs' = r.dirs
             /\ budget' = SpendFault(r.res)
             /\ call' = IF r.res.ok
                        THEN [call EXCEPT ![c].vpc = "mkdir"]
                        ELSE Finish(c, r.res)
    /\ UNCHANGED <<fs, returned, saved>>

\* write_all_vertices_to_files: create_dir_all(base_path/vertex); an empty
\* join_all is ready at once.
write_all_vertices_to_files(c) ==
    /\ Writing(c)
    /\ call[c].vpc = "mkdir"
    /\ \E io \in IoOutcomes :
         LET r == create_dir_all(dirs, io, "vertex")
         IN  /\ dirs' = r.dirs
             /\ budget' = SpendFault(r.res)
             /\ call' = IF r.res.ok
                        THEN [call EXCEPT ![c].vpc =
                                IF call[c].vertices = <<>> THEN "mkvec" ELSE "puts"]
                        ELSE Finish(c, r.res)
    /\ UNCHANGED <<fs, returned, saved>>

\* write_vertex with the position of the vertex hashed into the file.
write_vertex_with_position(c, i) ==
    /\ Writing(c)
    /\ call[c].vpc = "puts"
    /\ i \in DOMAIN call[c].vertices
    /\ i \notin DOMAIN call[c].vslots
    /\ \E io \in IoOutcomes :
         LET file == File(serialize_u64(call[c].vertices[i]) \o serialize_u64(i))
             r == write_file_in_dir(fs, dirs, io, "vertex", file)
             slots == [k \in DOMAIN call[c].vslots \cup {i} |->
                         IF k = i THEN file.hash ELSE call[c].vslots[k]]
         IN  /\ fs' = r.fs
             /\ budget' = SpendFault(r.res)
             /\ call' = IF r.res.ok
                        THEN [call EXCEPT ![c].vslots = slots,
                                          ![c].vpc =
                                             IF DOMAIN slots = DOMAIN call[c].vertices
                                             THEN "mkvec" ELSE "puts"]
                        ELSE Finish(c, r.res)
    /\ UNCHANGED <<dirs, returned, saved>>

\* write_vertex whose join is ready with all hashes after the first put.
write_vertex_first_ready(c, i) ==
    /\ Writing(c)
    /\ call[c].vpc = "puts"
    /\ i \in DOMAIN call[c].vertices
    /\ i \notin DOMAIN call[c].vslots
    /\ \E io \in IoOutcomes :
         LET file == vertex_to_file(call[c].vertices[i])
             r == write_file_in_dir(fs, dirs, io, "vertex", file)
             slots == [k \in DOMAIN call[c].vertices |->
                         vertex_to_file(call[c].vertices[k]).hash]
         IN  /\ fs' = r.fs
             /\ budget' = SpendFault(r.res)
             /\ call' = IF r.res.ok
                        THEN [call EXCEPT ![c].vslots = slots, ![c].vpc = "mkvec"]
                        ELSE Finish(c, r.res)
    /\ UNCHANGED <<dirs, returned, saved>>

\* write_vertex that drops the error of a failed write and goes on.
write_vertex_ignoring_error(c, i) ==
    /\ Writing(c)
    /\ call[c].vpc = "puts"
    /\ i \in DOMAIN call[c].vertices
    /\ i \notin DOMAIN call[c].vslots
    /\ \E io \in IoOutcomes :
         LET file == vertex_to_file(call[c].vertices[i])
             r == write_file_in_dir(fs, dirs, io, "vertex", file)
             slots == [k \in DOMAIN call[c].vslots \cup {i} |->
                         IF k = i THEN file.hash ELSE call[c].vslots[k]]
         IN  /\ fs' = r.fs
             /\ budget' = SpendFault(r.res)
             /\ call' = [call EXCEPT ![c].vslots = slots,
                                     ![c].vpc =
                                        IF DOMAIN slots = DOMAIN call[c].vertices
                                        THEN "mkvec" ELSE "puts"]
    /\ UNCHANGED <<dirs, returned, saved>>

\* One future of the join_all: the vertex at position i is written, and its
\* hash is kept at position i of the result.
write_vertex(c, i) ==
    /\ Writing(c)
    /\ call[c].vpc = "puts"
    /\ i \in DOMAIN call[c].vertices
    /\ i \notin DOMAIN call[c].vslots
    /\ \E io \in IoOutcomes :
         LET file == vertex_to_file(call[c].vertices[i])
             r == write_file_in_dir(fs, dirs, io, "vertex", file)
             slots == [k \in DOMAIN call[c].vslots \cup {i} |->
                         IF k = i THEN file.hash ELSE call[c].vslots[k]]
         IN  /\ fs' = r.fs
             /\ budget' = SpendFault(r.res)
             /\ call' = IF r.res.ok
                        THEN [call EXCEPT ![c].vslots = slots,
                                          ![c].vorder =
                                             IF budget.history THEN Append(@, i) ELSE @,
                                          ![c].vpc =
                                             IF DOMAIN slots = DOMAIN call[c].vertices
                                             THEN "mkvec" ELSE "puts"]
                        ELSE Finish(c, r.res)
    /\ UNCHANGED <<dirs, returned, saved>>

\* write_vertex_hash_vec_file: create_dir_all(base_path/vertexvec).
write_vertex_hash_vec_dir(c) ==
    /\ Writing(c)
    /\ call[c].vpc = "mkvec"
    /\ \E io \in IoOutcomes :
         LET r == create_dir_all(dirs, io, "vertexvec")
         IN  /\ dirs' = r.dirs
             /\ budget' = SpendFault(r.res)
             /\ call' = IF r.res.ok
                        THEN [call EXCEPT ![c].vpc = "putvec"]
                        ELSE Finish(c, r.res)
    /\ UNCHANGED <<fs, returned, saved>>

\* write_vertex_hash_vec_file: the manifest of the collected hashes is written.
write_vertex_hash_vec_file(c) ==
    /\ Writing(c)
    /\ call[c].vpc = "putvec"
    /\ \E io \in IoOutcomes :
         LET file == hash_vec_to_file(call[c].vslots)
             r == write_file_in_dir(fs, dirs, io, "vertexvec", file)
         IN  /\ fs' = r.fs
             /\ budget' = SpendFault(r.res)
             /\ call' = IF r.res.ok
                        THEN [call EXCEPT ![c].vpc = "done", ![c].vhash = file.hash]
                        ELSE Finish(c, r.res)
    /\ UNCHANGED <<dirs, returned, saved>>

\* write_graph_edges: create_dir_all(base_path).
write_graph_edges(c) ==
    /\ Writing(c)
    /\ call[c].epc = "mkbase"
    /\ \E io \in IoOutcomes :
         LET r == create_dir_all(dirs, io, "base")
         IN  /\ dirs' = r.dirs
             /\ budget' = SpendFault(r.res)
             /\ call' = IF r.res.ok
                        THEN [call EXCEPT ![c].epc = "mkdir"]
                        ELSE Finish(c, r.res)
    /\ UNCHANGED <<fs, returned, saved>>

\* write_all_edges_to_files that returns the hashes without running the
\* writes of the edge files.
write_all_edges_to_files_unwritten(c) ==
    /\ Writing(c)
    /\ call[c].epc = "mkdir"
    /\ \E io \in IoOutcomes :
         LET r == create_dir_all(dirs, io, "edge")
             slots == [k \in DOMAIN call[c].edges |-> edge_to_file(call[c].edges[k]).hash]
         IN  /\ dirs' = r.dirs
             /\ budget' = SpendFault(r.res)
             /\ call' = IF r.res.ok
                        THEN [call EXCEPT ![c].epc = "mkvec", ![c].eslots = slots]
                        ELSE Finish(c, r.res)
    /\ UNCHANGED <<fs, returned, saved>>

\* write_all_edges_to_files: create_dir_all(base_path/edge).
write_all_edges_to_files(c) ==
    /\ Writing(c)
    /\ call[c].epc = "mkdir"
    /\ \E io \in IoOutcomes :
         LET r == create_dir_all(dirs, io, "edge")
         IN  /\ dirs' = r.dirs
             /\ budget' = SpendFault(r.res)
             /\ call' = IF r.res.ok
                        THEN [call EXCEPT ![c].epc =
                                IF call[c].edges = <<>> THEN "mkvec" ELSE "puts"]
                        ELSE Finish(c, r.res)
    /\ UNCHANGED <<fs, returned, saved>>

\* write_edge that stores the vertex objects of the endpoints as well.
write_edge_storing_endpoints(c, i) ==
    /\ Writing(c)
    /\ call[c].epc = "puts"
    /\ i \in DOMAIN call[c].edges
    /\ i \notin DOMAIN call[c].eslots
    /\ \E io \in IoOutcomes :
         LET file == edge_to_file(call[c].edges[i])
             r == write_file_in_dir(fs, dirs, io, "edge", file)
             ends == {vertex_to_file(call[c].edges[i][1]), vertex_to_file(call[c].edges[i][2])}
             slots == [k \in DOMAIN call[c].eslots \cup {i} |->
                         IF k = i THEN file.hash ELSE call[c].eslots[k]]
         IN  /\ fs' = IF r.res.ok
                      THEN [r.fs EXCEPT !["vertex"] =
                              [k \in DOMAIN @ \cup {to_string(f.hash) : f \in ends} |->
                                 IF k \in DOMAIN @ THEN @[k]
                                 ELSE (CHOOSE f \in ends : to_string(f.hash) = k).content]]
                      ELSE r.fs
             /\ budget' = SpendFault(r.res)
             /\ call' = IF r.res.ok
                        THEN [call EXCEPT ![c].eslots = slots,
                                          ![c].epc =
                                             IF DOMAIN slots = DOMAIN call[c].edges
                                             THEN "mkvec" ELSE "puts"]
                        ELSE Finish(c, r.res)
    /\ UNCHANGED <<dirs, returned, saved>>

\* One future of the join_all: the edge at position i is written as a
\* HashEdge, and its hash is kept at position i of the result.
write_edge(c, i) ==
    /\ Writing(c)
    /\ call[c].epc = "puts"
    /\ i \in DOMAIN call[c].edges
    /\ i \notin DOMAIN call[c].eslots
    /\ \E io \in IoOutcomes :
         LET file == edge_to_file(call[c].edges[i])
             r == write_file_in_dir(fs, dirs, io, "edge", file)
             slots == [k \in DOMAIN call[c].eslots \cup {i} |->
                         IF k = i THEN file.hash ELSE call[c].eslots[k]]
         IN  /\ fs' = r.fs
             /\ budget' = SpendFault(r.res)
             /\ call' = IF r.res.ok
                        THEN [call EXCEPT ![c].eslots = slots,
                                          ![c].eorder =
                                             IF budget.history THEN Append(@, i) ELSE @,
                                          ![c].epc =
                                             IF DOMAIN slots = DOMAIN call[c].edges
                                             THEN "mkvec" ELSE "puts"]
                        ELSE Finish(c, r.res)
    /\ UNCHANGED <<dirs, returned, saved>>

\* write_edge_hash_vec_file: create_dir_all(base_path/edgevec).
write_edge_hash_vec_dir(c) ==
    /\ Writing(c)
    /\ call[c].epc = "mkvec"
    /\ \E io \in IoOutcomes :
         LET r == create_dir_all(dirs, io, "edgevec")
         IN  /\ dirs' = r.dirs
             /\ budget' = SpendFault(r.res)
             /\ call' = IF r.res.ok
                        THEN [call EXCEPT ![c].epc = "putvec"]
                        ELSE Finish(c, r.res)
    /\ UNCHANGED <<fs, returned, saved>>

\* write_edge_hash_vec_file: the manifest of the collected hashes is written.
write_edge_hash_vec_file(c) ==
    /\ Writing(c)
    /\ call[c].epc = "putvec"
    /\ \E io \in IoOutcomes :
         LET file == hash_vec_to_file(call[c].eslots)
             r == write_file_in_dir(fs, dirs, io, "edgevec", file)
         IN  /\ fs' = r.fs
             /\ budget' = SpendFault(r.res)
             /\ call' = IF r.res.ok
                        THEN [call EXCEPT ![c].epc = "done", ![c].ehash = file.hash]
                        ELSE Finish(c, r.res)
    /\ UNCHANGED <<dirs, returned, saved>>

\* write_graph: the root of the two manifests.
GraphHash(vertex_vec_hash, edge_vec_hash) ==
    [vertex_vec_hash |-> vertex_vec_hash, edge_vec_hash |-> edge_vec_hash]

\* write_graph's join is ready with the GraphHash; save_graph_as goes on with
\* create_dir_all(base_path/graph) and serializes the GraphHash.
write_graph(c) ==
    /\ Writing(c)
    /\ call[c].vpc = "done"
    /\ call[c].epc = "done"
    /\ \E io \in IoOutcomes :
         LET graph_hash == GraphHash(call[c].vhash, call[c].ehash)
             r == create_dir_all(dirs, io, "graph")
         IN  /\ dirs' = r.dirs
             /\ budget' = SpendFault(r.res)
             /\ returned' = returned \cup {[graph |-> call[c].graph, root |-> graph_hash,
                                           vertices |-> call[c].vertices,
                                           edges |-> call[c].edges]}
             /\ call' = IF r.res.ok
                        THEN [call EXCEPT ![c].pc = "write_name",
                                          ![c].content = serialize_graph_hash(graph_hash)]
                        ELSE Finish(c, r.res)
    /\ UNCHANGED <<fs, saved>>

\* save_graph_as that leaves an existing name file as it is.
save_graph_as_write_once(c) ==
    /\ call[c].op = "save_graph_as"
    /\ call[c].pc = "write_name"
    /\ \E io \in IoOutcomes :
         LET r == IF call[c].name \in DOMAIN fs["graph"]
                  THEN [res |-> Ok(call[c].name), fs |-> fs]
                  ELSE fs_write(fs, dirs, io, "graph", call[c].name, call[c].content)
         IN  /\ fs' = r.fs
             /\ budget' = SpendFault(r.res)
             /\ call' = Finish(c, IF r.res.ok THEN Ok(<<"graph", call[c].name>>) ELSE r.res)
             /\ saved' = IF r.res.ok
                         THEN [saved EXCEPT ![call[c].name] =
                                 Append(@, [graph |-> call[c].graph,
                                            root  |-> deserialize_graph_hash(call[c].content).val])]
                         ELSE saved
    /\ UNCHANGED <<dirs, returned>>

\* save_graph_as that opens the name file for append.
save_graph_as_write_append(c) ==
    /\ call[c].op = "save_graph_as"
    /\ call[c].pc = "write_name"
    /\ \E io \in IoOutcomes :
         LET r == fs_write_append(fs, dirs, io, "graph", call[c].name, call[c].content)
         IN  /\ fs' = r.fs
             /\ budget' = SpendFault(r.res)
             /\ call' = Finish(c, IF r.res.ok THEN Ok(<<"graph", call[c].name>>) ELSE r.res)
             /\ saved' = IF r.res.ok
                         THEN [saved EXCEPT ![call[c].name] =
                                 Append(@, [graph |-> call[c].graph,
                                            root  |-> deserialize_graph_hash(call[c].content).val])]
                         ELSE saved
    /\ UNCHANGED <<dirs, returned>>

\* save_graph_as: tokio_fs::write(base_path/graph/name, content).
save_graph_as_write(c) ==
    /\ call[c].op = "save_graph_as"
    /\ call[c].pc = "write_name"
    /\ \E io \in IoOutcomes :
         LET r == fs_write(fs, dirs, io, "graph", call[c].name, call[c].content)
         IN  /\ fs' = r.fs
             /\ budget' = SpendFault(r.res)
             /\ call' = Finish(c, IF r.res.ok THEN Ok(<<"graph", call[c].name>>) ELSE r.res)
             /\ saved' = IF r.res.ok
                         THEN [saved EXCEPT ![call[c].name] =
                                 Append(@, [graph |-> call[c].graph,
                                            root  |-> deserialize_graph_hash(call[c].content).val])]
                         ELSE saved
    /\ UNCHANGED <<dirs, returned>>

(***************************************************************************)
(* read_graph(base_path, graph_hash) and load_graph(base_dir, name).       *)
(* History kept per call: gets, the files the call has read; known, the    *)
(* write_graph results returned before the call started; expect, the last  *)
(* completed save of the name when load_graph read the name file.          *)
(***************************************************************************)
NoSave == [version |-> 0]

ReadCall(op, pc, name, graph_hash) ==
    [op |-> op, pc |-> pc, name |-> name, graph_hash |-> graph_hash,
     hash_vec |-> <<>>, vslots |-> <<>>, graph |-> new,
     ehash_vec |-> <<>>, est |-> <<>>, edges |-> <<>>,
     gets |-> {}, known |-> returned, expect |-> NoSave, result |-> NoResult]

\* The roots a caller may hand to read_graph: any pair of manifests of a
\* vertex vector and an edge vector, stored or not.
VertexVecs == UNION {Perms(V) : V \in SUBSET VertexIds}

EdgeVecs == UNION {Perms(E) : E \in {F \in SUBSET AllEdges : Cardinality(F) <= MaxEdges}}

VertexVecHash(vs) ==
    hash_vec_to_file([i \in DOMAIN vs |-> vertex_to_file(vs[i]).hash]).hash

EdgeVecHash(es) ==
    hash_vec_to_file([i \in DOMAIN es |-> edge_to_file(es[i]).hash]).hash

GraphHashes ==
    {GraphHash(VertexVecHash(vs), EdgeVecHash(es)) : vs \in VertexVecs, es \in EdgeVecs}

read_graph(c) ==
    /\ CanStart(c)
    /\ budget.reads > 0
    /\ budget' = [budget EXCEPT !.reads = @ - 1]
    /\ \E graph_hash \in GraphHashes :
         call' = [call EXCEPT ![c] = ReadCall("read_graph", "vvec", 0, graph_hash)]
    /\ UNCHANGED <<fs, dirs, returned, saved>>

load_graph(c) ==
    /\ CanStart(c)
    /\ budget.reads > 0
    /\ budget' = [budget EXCEPT !.reads = @ - 1]
    /\ \E name \in Names :
         call' = [call EXCEPT ![c] = ReadCall("load_graph", "name", name, NoResult)]
    /\ UNCHANGED <<fs, dirs, returned, saved>>

Reading(c, pc) == call[c].op \in {"read_graph", "load_graph"} /\ call[c].pc = pc

\* load_graph that takes a missing name file for the empty graph.
load_graph_read_or_empty(c) ==
    /\ Reading(c, "name")
    /\ \E io \in IoOutcomes :
         LET r == fs_read(fs, io, "graph", call[c].name)
             graph_hash == IF r.ok THEN deserialize_graph_hash(r.val) ELSE r
             rec == [call[c] EXCEPT !.gets = @ \cup {<<"graph", call[c].name>>},
                                    !.expect = [version |-> Len(saved[call[c].name])]]
         IN  /\ budget' = SpendFault(graph_hash)
             /\ call' = [call EXCEPT ![c] =
                           IF graph_hash.ok
                           THEN [rec EXCEPT !.pc = "vvec", !.graph_hash = graph_hash.val]
                           ELSE IF graph_hash.err.kind = "NotFound"
                           THEN [rec EXCEPT !.pc = "done", !.result = Ok(new)]
                           ELSE [rec EXCEPT !.pc = "done", !.result = graph_hash]]
    /\ UNCHANGED <<fs, dirs, returned, saved>>

\* load_graph: tokio_fs::read(base_dir/graph/name), then the GraphHash is
\* deserialized and read_graph takes over.
load_graph_read(c) ==
    /\ Reading(c, "name")
    /\ \E io \in IoOutcomes :
         LET r == fs_read(fs, io, "graph", call[c].name)
             graph_hash == IF r.ok THEN deserialize_graph_hash(r.val) ELSE r
             rec == [call[c] EXCEPT !.gets = @ \cup {<<"graph", call[c].name>>},
                                    !.expect = [version |-> Len(saved[call[c].name])]]
         IN  /\ budget' = SpendFault(graph_hash)
             /\ call' = [call EXCEPT ![c] =
                           IF graph_hash.ok
                           THEN [rec EXCEPT !.pc = "vvec", !.graph_hash = graph_hash.val]
                           ELSE [rec EXCEPT !.pc = "done", !.result = graph_hash]]
    /\ UNCHANGED <<fs, dirs, returned, saved>>

\* read_vertex_hash_vec that takes a missing manifest for an empty one.
read_vertex_hash_vec_or_empty(c) ==
    /\ Reading(c, "vvec")
    /\ \E io \in IoOutcomes :
         LET hash == call[c].graph_hash.vertex_vec_hash
             r == read_file_in_dir(fs, io, "vertexvec", hash)
             hash_vec == IF r.ok THEN file_to_hash_vec(r.val)
                         ELSE IF r.err.kind = "NotFound" THEN Ok(<<>>) ELSE r
             rec == [call[c] EXCEPT !.gets = @ \cup {<<"vertexvec", to_string(hash)>>}]
         IN  /\ budget' = SpendFault(hash_vec)
             /\ call' = [call EXCEPT ![c] =
                           IF hash_vec.ok
                           THEN [rec EXCEPT !.hash_vec = hash_vec.val,
                                            !.pc = IF hash_vec.val = <<>>
                                                   THEN "evec" ELSE "vertices"]
                           ELSE [rec EXCEPT !.pc = "done", !.result = hash_vec]]
    /\ UNCHANGED <<fs, dirs, returned, saved>>

\* read_vertex_hash_vec: the vertex manifest is read and decoded; an empty
\* join_all of vertex reads is ready at once.
read_vertex_hash_vec(c) ==
    /\ Reading(c, "vvec")
    /\ \E io \in IoOutcomes :
         LET hash == call[c].graph_hash.vertex_vec_hash
             r == read_file_in_dir(fs, io, "vertexvec", hash)
             hash_vec == IF r.ok THEN file_to_hash_vec(r.val) ELSE r
             rec == [call[c] EXCEPT !.gets = @ \cup {<<"vertexvec", to_string(hash)>>}]
         IN  /\ budget' = SpendFault(hash_vec)
             /\ call' = [call EXCEPT ![c] =
                           IF hash_vec.ok
                           THEN [rec EXCEPT !.hash_vec = hash_vec.val,
                                            !.pc = IF hash_vec.val = <<>>
                                                   THEN "evec" ELSE "vertices"]
                           ELSE [rec EXCEPT !.pc = "done", !.result = hash_vec]]
    /\ UNCHANGED <<fs, dirs, returned, saved>>

\* read_vertex whose join is ready as soon as the first vertex of the
\* manifest is read.
read_vertex_first_ready(c, i) ==
    /\ Reading(c, "vertices")
    /\ i \in DOMAIN call[c].hash_vec
    /\ i \notin DOMAIN call[c].vslots
    /\ \E io \in IoOutcomes :
         LET hash == call[c].hash_vec[i]
             r == read_file_in_dir(fs, io, "vertex", hash)
             v == IF r.ok THEN file_to_vertex(r.val) ELSE r
             rec == [call[c] EXCEPT !.gets = @ \cup {<<"vertex", to_string(hash)>>}]
             slots == [k \in DOMAIN call[c].vslots \cup {i} |->
                         IF k = i THEN v.val ELSE call[c].vslots[k]]
         IN  /\ budget' = SpendFault(v)
             /\ call' = [call EXCEPT ![c] =
                           IF v.ok
                           THEN [rec EXCEPT !.vslots = slots,
                                            !.pc = IF 1 \in DOMAIN slots
                                                   THEN "evec" ELSE "vertices"]
                           ELSE [rec EXCEPT !.pc = "done", !.result = v]]
    /\ UNCHANGED <<fs, dirs, returned, saved>>

\* read_all_vertices_from_files, one future of the join_all: the vertex at
\* position i of the manifest is read and decoded.
read_vertex(c, i) ==
    /\ Reading(c, "vertices")
    /\ i \in DOMAIN call[c].hash_vec
    /\ i \notin DOMAIN call[c].vslots
    /\ \E io \in IoOutcomes :
         LET hash == call[c].hash_vec[i]
             r == read_file_in_dir(fs, io, "vertex", hash)
             v == IF r.ok THEN file_to_vertex(r.val) ELSE r
             rec == [call[c] EXCEPT !.gets = @ \cup {<<"vertex", to_string(hash)>>}]
             slots == [k \in DOMAIN call[c].vslots \cup {i} |->
                         IF k = i THEN v.val ELSE call[c].vslots[k]]
         IN  /\ budget' = SpendFault(v)
             /\ call' = [call EXCEPT ![c] =
                           IF v.ok
                           THEN [rec EXCEPT !.vslots = slots,
                                            !.pc = IF DOMAIN slots = DOMAIN call[c].hash_vec
                                                   THEN "evec" ELSE "vertices"]
                           ELSE [rec EXCEPT !.pc = "done", !.result = v]]
    /\ UNCHANGED <<fs, dirs, returned, saved>>

\* read_graph_vertices adds the vertices read to the graph; read_graph goes
\* on with read_edge_hash_vec: the edge manifest is read and decoded.
read_edge_hash_vec(c) ==
    /\ Reading(c, "evec")
    /\ \E io \in IoOutcomes :
         LET hash == call[c].graph_hash.edge_vec_hash
             r == read_file_in_dir(fs, io, "edgevec", hash)
             hash_vec == IF r.ok THEN file_to_hash_vec(r.val) ELSE r
             rec == [call[c] EXCEPT !.gets = @ \cup {<<"edgevec", to_string(hash)>>},
                                    !.graph = add_all_vertices(@, call[c].vslots)]
         IN  /\ budget' = SpendFault(hash_vec)
             /\ call' = [call EXCEPT ![c] =
                           IF hash_vec.ok
                           THEN [rec EXCEPT !.ehash_vec = hash_vec.val,
                                            !.est = [k \in DOMAIN hash_vec.val |->
                                                       [pc |-> "edge"]],
                                            !.pc = "edges"]
                           ELSE [rec EXCEPT !.pc = "done", !.result = hash_vec]]
    /\ UNCHANGED <<fs, dirs, returned, saved>>

\* read_edge, first step: read_hash_edge reads and decodes the HashEdge at
\* position i of the edge manifest.
read_hash_edge(c, i) ==
    /\ Reading(c, "edges")
    /\ i \in DOMAIN call[c].est
    /\ call[c].est[i].pc = "edge"
    /\ \E io \in IoOutcomes :
         LET hash == call[c].ehash_vec[i]
             r == read_file_in_dir(fs, io, "edge", hash)
             hash_edge == IF r.ok THEN file_to_hash_edge(r.val) ELSE r
             rec == [call[c] EXCEPT !.gets = @ \cup {<<"edge", to_string(hash)>>}]
         IN  /\ budget' = SpendFault(hash_edge)
             /\ call' = [call EXCEPT ![c] =
                           IF hash_edge.ok
                           THEN [rec EXCEPT !.est[i] =
                                    [pc |-> "ends", from |-> hash_edge.val.from,
                                     to |-> hash_edge.val.to, got |-> {},
                                     edge |-> <<0, 0>>]]
                           ELSE [rec EXCEPT !.pc = "done", !.result = hash_edge]]
    /\ UNCHANGED <<fs, dirs, returned, saved>>

\* The join that builds Edge(v1, v0).
EdgeJoinedReversed(e) ==
    IF e.got = {"from", "to"}
    THEN [e EXCEPT !.pc = "done", !.edge = <<e.edge[2], e.edge[1]>>]
    ELSE e

\* A join of from_fut and to_fut that is never ready.
EdgeJoinedNever(e) == e

\* The join of from_fut and to_fut is ready with Edge(v0, v1).
EdgeJoined(e) ==
    IF e.got = {"from", "to"} THEN [e EXCEPT !.pc = "done"] ELSE e

\* read_edge, from_fut: the vertex object at `from` is read from the vertex
\* directory and decoded.
read_edge_from(c, i) ==
    /\ Reading(c, "edges")
    /\ i \in DOMAIN call[c].est
    /\ call[c].est[i].pc = "ends"
    /\ "from" \notin call[c].est[i].got
    /\ \E io \in IoOutcomes :
         LET hash == call[c].est[i].from
             r == read_file_in_dir(fs, io, "vertex", hash)
             v == IF r.ok THEN file_to_vertex(r.val) ELSE r
             rec == [call[c] EXCEPT !.gets = @ \cup {<<"vertex", to_string(hash)>>}]
         IN  /\ budget' = SpendFault(v)
             /\ call' = [call EXCEPT ![c] =
                           IF v.ok
                           THEN [rec EXCEPT !.est[i] =
                                    EdgeJoined([@ EXCEPT !.got = @ \cup {"from"},
                                                         !.edge[1] = v.val])]
                           ELSE [rec EXCEPT !.pc = "done", !.result = v]]
    /\ UNCHANGED <<fs, dirs, returned, saved>>

\* read_edge, to_fut: the vertex object at `to` is read from the vertex
\* directory and decoded.
read_edge_to(c, i) ==
    /\ Reading(c, "edges")
    /\ i \in DOMAIN call[c].est
    /\ call[c].est[i].pc = "ends"
    /\ "to" \notin call[c].est[i].got
    /\ \E io \in IoOutcomes :
         LET hash == call[c].est[i].to
             r == read_file_in_dir(fs, io, "vertex", hash)
             v == IF r.ok THEN file_to_vertex(r.val) ELSE r
             rec == [call[c] EXCEPT !.gets = @ \cup {<<"vertex", to_string(hash)>>}]
         IN  /\ budget' = SpendFault(v)
             /\ call' = [call EXCEPT ![c] =
                           IF v.ok
                           THEN [rec EXCEPT !.est[i] =
                                    EdgeJoined([@ EXCEPT !.got = @ \cup {"to"},
                                                         !.edge[2] = v.val])]
                           ELSE [rec EXCEPT !.pc = "done", !.result = v]]
    /\ UNCHANGED <<fs, dirs, returned, saved>>

\* read_graph_edges that rejects an edge with an endpoint that is not among
\* the vertices read.
read_graph_edges_checked(c) ==
    /\ Reading(c, "edges")
    /\ \A i \in DOMAIN call[c].est : call[c].est[i].pc = "done"
    /\ LET edges == [i \in DOMAIN call[c].est |-> call[c].est[i].edge]
           graph == add_all_edges(call[c].graph, edges)
           known_ends == \A i \in DOMAIN edges :
                            {edges[i][1], edges[i][2]} \subseteq call[c].graph.vertices
       IN  call' = [call EXCEPT ![c].edges = edges,
                                ![c].graph = IF known_ends THEN graph ELSE @,
                                ![c].pc = "done",
                                ![c].result = IF known_ends THEN Ok(graph)
                                              ELSE Err(BincodeError)]
    /\ UNCHANGED <<fs, dirs, budget, returned, saved>>

\* read_graph_edges: the join_all of the edges is ready; the edges are added
\* to the graph, which is the result of read_graph.
read_graph_edges(c) ==
    /\ Reading(c, "edges")
    /\ \A i \in DOMAIN call[c].est : call[c].est[i].pc = "done"
    /\ LET edges == [i \in DOMAIN call[c].est |-> call[c].est[i].edge]
           graph == add_all_edges(call[c].graph, edges)
       IN  call' = [call EXCEPT ![c].edges = edges,
                                ![c].graph = graph,
                                ![c].pc = "done",
                                ![c].result = Ok(graph)]
    /\ UNCHANGED <<fs, dirs, budget, returned, saved>>

\* The caller takes the result of a finished call; the slot is free again.
Return(c) ==
    /\ call[c].op # "idle"
    /\ call[c].pc = "done"
    /\ call' = [call EXCEPT ![c] = Idle]
    /\ UNCHANGED <<fs, dirs, budget, returned, saved>>

Next ==
    \E c \in Calls :
        \/ save_graph_as(c)
        \/ write_graph_vertices(c)
        \/ write_all_vertices_to_files(c)
        \/ \E i \in 1..MaxVertexId : write_vertex(c, i)
        \/ write_vertex_hash_vec_dir(c)
        \/ write_vertex_hash_vec_file(c)
        \/ write_graph_edges(c)
        \/ write_all_edges_to_files(c)
        \/ \E i \in 1..MaxEdgesAlone : write_edge(c, i)
        \/ write_edge_hash_vec_dir(c)
        \/ write_edge_hash_vec_file(c)
        \/ write_graph(c)
        \/ save_graph_as_write(c)
        \/ read_graph(c)
        \/ load_graph(c)
        \/ load_graph_read(c)
        \/ read_vertex_hash_vec(c)
        \/ \E i \in 1..MaxVertexId : read_vertex(c, i)
        \/ read_edge_hash_vec(c)
        \/ \E i \in 1..MaxEdges : read_hash_edge(c, i)
        \/ \E i \in 1..MaxEdges : read_edge_from(c, i)
        \/ \E i \in 1..MaxEdges : read_edge_to(c, i)
        \/ read_graph_edges(c)
        \/ Return(c)

Spec == Init /\ [][Next]_vars

\* The steps of save_graph_as alone.
NextSave ==
    \E c \in Calls :
        \/ save_graph_as(c)
        \/ write_graph_vertices(c)
        \/ write_all_vertices_to_files(c)
        \/ \E i \in 1..MaxVertexId : write_vertex(c, i)
        \/ write_vertex_hash_vec_dir(c)
        \/ write_vertex_hash_vec_file(c)
        \/ write_graph_edges(c)
        \/ write_all_edges_to_files(c)
        \/ \E i \in 1..MaxEdgesAlone : write_edge(c, i)
        \/ write_edge_hash_vec_dir(c)
        \/ write_edge_hash_vec_file(c)
        \/ write_graph(c)
        \/ save_graph_as_write(c)
        \/ Return(c)

\* Saves that overlap, no I/O failure.
InitConc ==
    InitWith([saves |-> MaxSaves, reads |-> 0, faults |-> 0, inflight |-> MaxCalls,
              edges |-> MaxEdges, vertices |-> MaxVertexId, history |-> FALSE])

SpecConc == InitConc /\ [][NextSave]_vars

\* One save alone, of a graph of up to MaxEdgesAlone edges, with its
\* history kept.
InitAlone ==
    InitWith([saves |-> 1, reads |-> 0, faults |-> 0, inflight |-> 1,
              edges |-> MaxEdgesAlone, vertices |-> MaxVertexId, history |-> TRUE])

SpecAlone == InitAlone /\ [][NextSave]_vars

\* Calls one after the other; I/O calls may fail; the history of each save
\* is kept.
InitFault ==
    InitWith([saves |-> MaxSaves, reads |-> MaxReads, faults |-> MaxFaults, inflight |-> 1,
              edges |-> MaxEdges, vertices |-> MaxVertexId, history |-> TRUE])

SpecFault == InitFault /\ [][Next]_vars

\* Saves that overlap, and I/O calls that may fail.
InitConcFault ==
    InitWith([saves |-> MaxSaves, reads |-> 0, faults |-> MaxFaults, inflight |-> MaxCalls,
              edges |-> MaxEdges, vertices |-> MaxVerticesRacing, history |-> FALSE])

SpecConcFault == InitConcFault /\ [][NextSave]_vars

\* The steps of save_graph_as and of load_graph.
NextSaveLoad ==
    \E c \in Calls :
        \/ save_graph_as(c)
        \/ write_graph_vertices(c)
        \/ write_all_vertices_to_files(c)
        \/ \E i \in 1..MaxVertexId : write_vertex(c, i)
        \/ write_vertex_hash_vec_dir(c)
        \/ write_vertex_hash_vec_file(c)
        \/ write_graph_edges(c)
        \/ write_all_edges_to_files(c)
        \/ \E i \in 1..MaxEdgesAlone : write_edge(c, i)
        \/ write_edge_hash_vec_dir(c)
        \/ write_edge_hash_vec_file(c)
        \/ write_graph(c)
        \/ save_graph_as_write(c)
        \/ load_graph(c)
        \/ load_graph_read(c)
        \/ read_vertex_hash_vec(c)
        \/ \E i \in 1..MaxVertexId : read_vertex(c, i)
        \/ read_edge_hash_vec(c)
        \/ \E i \in 1..MaxEdges : read_hash_edge(c, i)
        \/ \E i \in 1..MaxEdges : read_edge_from(c, i)
        \/ \E i \in 1..MaxEdges : read_edge_to(c, i)
        \/ read_graph_edges(c)
        \/ Return(c)

\* Saves that overlap, and a load; the history of each save is kept.
InitRace ==
    InitWith([saves |-> MaxSaves, reads |-> MaxReads, faults |-> 0, inflight |-> MaxCalls,
              edges |-> MaxEdges, vertices |-> MaxVerticesRacing, history |-> TRUE])

SpecRace == InitRace /\ [][NextSaveLoad]_vars

\* A step of the future in slot c: one tokio_fs call returns, or a join is
\* ready.
Poll(c) ==
    \/ write_graph_vertices(c)
    \/ write_all_vertices_to_files(c)
    \/ \E i \in 1..MaxVertexId : write_vertex(c, i)
    \/ write_vertex_hash_vec_dir(c)
    \/ write_vertex_hash_vec_file(c)
    \/ write_graph_edges(c)
    \/ write_all_edges_to_files(c)
    \/ \E i \in 1..MaxEdgesAlone : write_edge(c, i)
    \/ write_edge_hash_vec_dir(c)
    \/ write_edge_hash_vec_file(c)
    \/ write_graph(c)
    \/ save_graph_as_write(c)
    \/ load_graph_read(c)
    \/ read_vertex_hash_vec(c)
    \/ \E i \in 1..MaxVertexId : read_vertex(c, i)
    \/ read_edge_hash_vec(c)
    \/ \E i \in 1..MaxEdges : read_hash_edge(c, i)
    \/ \E i \in 1..MaxEdges : read_edge_from(c, i)
    \/ \E i \in 1..MaxEdges : read_edge_to(c, i)
    \/ read_graph_edges(c)

\* One call at a time, I/O calls that may fail; the future in flight is
\* polled again and every I/O call returns.
InitLive ==
    InitWith([saves |-> MaxSaves, reads |-> MaxReads, faults |-> MaxFaults,
              inflight |-> 1, edges |-> MaxEdges,
              vertices |-> MaxVerticesRacing, history |-> FALSE])

SpecLive == InitLive /\ [][Next]_vars /\ \A c \in Calls : WF_vars(Poll(c))

(***************************************************************************)
(* Properties.                                                             *)
(***************************************************************************)
Done(c, op) == call[c].op = op /\ call[c].pc = "done"

\* C1: a read_graph of the root that a completed write_graph of G returned
\* (before the read started) succeeds, and its graph has the vertex set and
\* the edge set of G, in whatever order G was iterated when written.
C1_ReadGraphOfWrittenRoot ==
    \A c \in Calls :
        Done(c, "read_graph") =>
            \A w \in call[c].known :
                w.root = call[c].graph_hash => call[c].result = Ok(w.graph)

\* A graph of two vertices and an edge, written with vertex 2 before
\* vertex 1, has been read back.
C1_Witness ==
    \E c \in Calls :
        /\ Done(c, "read_graph")
        /\ \E w \in call[c].known :
             /\ w.root = call[c].graph_hash
             /\ w.vertices = <<2, 1>>
             /\ w.edges = <<<<1, 2>>>>
             /\ call[c].result = Ok(w.graph)

\* C2: a load_graph of a name reads the name file after a save_graph_as of
\* the name with graph G completed; it returns exactly G.
C2_LoadAfterSave ==
    \A c \in Calls :
        (Done(c, "load_graph") /\ call[c].expect.version > 0) =>
            call[c].result = Ok(saved[call[c].name][call[c].expect.version].graph)

\* A saved graph with an isolated vertex and an edge has been loaded.
C2_Witness ==
    \E c \in Calls :
        /\ Done(c, "load_graph")
        /\ call[c].expect.version > 0
        /\ call[c].result.ok
        /\ call[c].result.val = [vertices |-> {1, 2}, edges |-> {<<2, 2>>}]

\* C3: the name file holds the root of the save_graph_as that completed
\* last for the name, and a load_graph after two completed saves returns the
\* graph of the second one.
C3_LastSaveWins ==
    /\ \A n \in Names :
         saved[n] # <<>> =>
            /\ n \in DOMAIN fs["graph"]
            /\ deserialize_graph_hash(fs["graph"][n]) = Ok(saved[n][Len(saved[n])].root)
    /\ \A c \in Calls :
         (Done(c, "load_graph") /\ call[c].expect.version >= 2) =>
            /\ call[c].expect.version = Len(saved[call[c].name])
            /\ call[c].result = Ok(saved[call[c].name][Len(saved[call[c].name])].graph)

\* Two different graphs were saved under one name, and the load returned
\* the second.
C3_Witness ==
    \E c \in Calls :
        /\ Done(c, "load_graph")
        /\ call[c].expect.version = 2
        /\ saved[call[c].name][1].graph # saved[call[c].name][2].graph
        /\ call[c].result = Ok(saved[call[c].name][2].graph)

\* C4: a load_graph of a name that no save_graph_as has written fails with
\* the not-found error of the name file (SnapshotNotFound), returns no graph
\* and has read no file of a manifest or object directory.
C4_LoadUnknownName ==
    \A c \in Calls :
        (Done(c, "load_graph") /\ call[c].expect.version = 0) =>
            /\ call[c].result = Err(NotFound("graph", call[c].name))
            /\ call[c].gets = {<<"graph", call[c].name>>}
            /\ call[c].graph = new

\* A load of an unsaved name has finished while the store holds objects.
C4_Witness ==
    \E c \in Calls :
        /\ Done(c, "load_graph")
        /\ call[c].expect.version = 0
        /\ ~call[c].result.ok
        /\ fs["vertexvec"] # <<>>

ObjectDirs == {"vertex", "edge", "vertexvec", "edgevec"}

\* Some object that the root refers to, directly or through a manifest or
\* a HashEdge, is not in the store.
SomeObjectAbsent(files, root) ==
    LET vkey == to_string(root.vertex_vec_hash)
        ekey == to_string(root.edge_vec_hash)
        Stored(dir, hash) == to_string(hash) \in DOMAIN files[dir]
        Absent(dir, hash_vec) == \E i \in DOMAIN hash_vec : ~Stored(dir, hash_vec[i])
        EndAbsent(hash) ==
            LET hash_edge == file_to_hash_edge(files["edge"][to_string(hash)]).val
            IN  ~Stored("vertex", hash_edge.from) \/ ~Stored("vertex", hash_edge.to)
    IN  \/ vkey \notin DOMAIN files["vertexvec"]
        \/ Absent("vertex", file_to_hash_vec(files["vertexvec"][vkey]).val)
        \/ ekey \notin DOMAIN files["edgevec"]
        \/ Absent("edge", file_to_hash_vec(files["edgevec"][ekey]).val)
        \/ \E h \in Range(file_to_hash_vec(files["edgevec"][ekey]).val) : EndAbsent(h)

\* C5: a read_graph of a root whose vertex manifest is not in the store
\* fails with the not-found error of that manifest (ObjectNotFound), having
\* read nothing else and added nothing to the graph; and whenever any object
\* the root refers to is absent, the read ends in an error, not in a graph.
C5_ReadOfAbsentObjectFails ==
    \A c \in Calls :
        Done(c, "read_graph") =>
            LET vkey == to_string(call[c].graph_hash.vertex_vec_hash)
            IN  /\ SomeObjectAbsent(fs, call[c].graph_hash) => ~call[c].result.ok
                /\ vkey \notin DOMAIN fs["vertexvec"] =>
                      /\ call[c].result = Err(NotFound("vertexvec", vkey))
                      /\ call[c].gets = {<<"vertexvec", vkey>>}
                      /\ call[c].graph = new

\* Both manifests and the edge object were there, the vertex object of an
\* endpoint was not: the read ended with its not-found error.
C5_Witness ==
    \E c \in Calls :
        /\ Done(c, "read_graph")
        /\ ~call[c].result.ok
        /\ call[c].result.err.kind = "NotFound"
        /\ call[c].result.err.dir = "vertex"
        /\ \E i \in DOMAIN call[c].est : call[c].est[i].pc = "ends"
        /\ call[c].graph.vertices # {}

\* The vertex vectors whose manifest has been written, with the hash of the
\* manifest: those of completed write_graphs and of the saves in flight.
WrittenVertexVecs ==
    {[vertices |-> w.vertices, hash |-> w.root.vertex_vec_hash] : w \in returned}
    \cup {[vertices |-> call[c].vertices, hash |-> call[c].vhash] :
            c \in {d \in Calls : call[d].op = "save_graph_as" /\ call[d].vpc = "done"}}

VertexObjectsOf(v) ==
    {k \in DOMAIN fs["vertex"] : file_to_vertex(fs["vertex"][k]) = Ok(v)}

\* C6: the vertex directory never holds more than one object of a vertex
\* id, and every vertex manifest written for a graph with that vertex lists
\* the hash of that one object, whichever save wrote it and whether the saves
\* overlapped or not.
C6_OneObjectPerVertex ==
    \A v \in VertexIds :
        /\ Cardinality(VertexObjectsOf(v)) <= 1
        /\ \A w \in WrittenVertexVecs :
             v \in Range(w.vertices) =>
                LET hash_vec == file_to_hash_vec(fs["vertexvec"][to_string(w.hash)])
                IN  /\ hash_vec.ok
                    /\ \E i \in DOMAIN hash_vec.val :
                          VertexObjectsOf(v) = {to_string(hash_vec.val[i])}

\* Two saves in flight at once, of different graphs that share vertex 1,
\* have both written their vertex manifests.
C6_Witness ==
    /\ \A c \in {1, 2} :
         /\ Writing(c)
         /\ call[c].vpc = "done"
         /\ 1 \in Range(call[c].vertices)
    /\ call[1].graph # call[2].graph
    /\ call[1].vhash # call[2].vhash

\* The files a save can put into each object directory.
PutFiles(dir) ==
    CASE dir = "vertex"    -> {vertex_to_file(v) : v \in VertexIds}
      [] dir = "edge"      -> {edge_to_file(e) : e \in AllEdges}
      [] dir = "vertexvec" ->
            {hash_vec_to_file([i \in DOMAIN vs |-> vertex_to_file(vs[i]).hash]) : vs \in VertexVecs}
      [] dir = "edgevec"   ->
            {hash_vec_to_file([i \in DOMAIN es |-> edge_to_file(es[i]).hash]) : es \in EdgeVecs}

\* C7: in every store the program reaches, putting a file a second time
\* succeeds and leaves every directory with the keys and bytes it had after
\* the first put; and no save that repeats a put ends in an error.
C7_PutTwice ==
    /\ \A dir \in ObjectDirs \cap dirs :
         \A file \in PutFiles(dir) :
            LET once  == write_file_in_dir(fs, dirs, "ok", dir, file)
                twice == write_file_in_dir(once.fs, dirs, "ok", dir, file)
            IN  /\ once.res.ok
                /\ twice.res.ok
                /\ twice.fs = once.fs
                /\ to_string(file.hash) \in DOMAIN fs[dir] => once.fs = fs
    /\ \A c \in Calls : Done(c, "save_graph_as") => call[c].result.ok

\* A save has put vertex 1 and the edge (1, 2) again, which an earlier
\* save had stored, and has ended well.
C7_Witness ==
    \E c \in Calls :
        /\ Done(c, "save_graph_as")
        /\ call[c].result.ok
        /\ Len(saved[call[c].name]) = 2
        /\ 1 \in saved[call[c].name][1].graph.vertices
        /\ 1 \in call[c].graph.vertices
        /\ <<1, 2>> \in saved[call[c].name][1].graph.edges
        /\ <<1, 2>> \in call[c].graph.edges

\* C8: two writes of one vertex set in different orders return different
\* vertex manifest hashes, and so different roots; a read of either manifest
\* yields the vertices of that set.
C8_ManifestOrder ==
    /\ \A w1, w2 \in returned :
         (Range(w1.vertices) = Range(w2.vertices) /\ w1.vertices # w2.vertices) =>
            /\ w1.root.vertex_vec_hash # w2.root.vertex_vec_hash
            /\ w1.root # w2.root
    /\ \A c \in Calls :
         Done(c, "read_graph") =>
            \A w \in call[c].known :
               w.root.vertex_vec_hash = call[c].graph_hash.vertex_vec_hash =>
                  Range(call[c].vslots) = Range(w.vertices)

\* The vertex set {1, 2} was written as <<1, 2>> and as <<2, 1>>, and the
\* manifest of <<2, 1>> has been read.
C8_Witness ==
    \E c \in Calls :
        /\ Done(c, "read_graph")
        /\ \E w1, w2 \in call[c].known :
             /\ w1.vertices = <<1, 2>>
             /\ w2.vertices = <<2, 1>>
             /\ w2.root.vertex_vec_hash = call[c].graph_hash.vertex_vec_hash
        /\ call[c].vslots = <<2, 1>>

\* C9: once the object of vertex v is in the vertex directory under its
\* hash, a read of that key gives the bytes that were written, and they
\* decode to v; every vertex a reader has fetched by such a hash is v.
C9_VertexReadBack ==
    /\ \A v \in VertexIds :
         LET file == vertex_to_file(v)
         IN  to_string(file.hash) \in DOMAIN fs["vertex"] =>
                /\ read_file_in_dir(fs, "ok", "vertex", file.hash) = Ok(file.content)
                /\ file_to_vertex(read_file_in_dir(fs, "ok", "vertex", file.hash).val) = Ok(v)
    /\ \A c \in Calls :
         call[c].op \in {"read_graph", "load_graph"} =>
            \A i \in DOMAIN call[c].vslots :
               \A v \in VertexIds :
                  call[c].hash_vec[i] = vertex_to_file(v).hash => call[c].vslots[i] = v

\* Vertex 2 has been read back after the objects of vertex 1 and of an edge
\* were put as well.
C9_Witness ==
    \E c \in Calls :
        /\ call[c].op \in {"read_graph", "load_graph"}
        /\ \E i \in DOMAIN call[c].vslots : call[c].vslots[i] = 2
        /\ to_string(vertex_to_file(1).hash) \in DOMAIN fs["vertex"]
        /\ fs["edge"] # <<>>

\* C10: an edge object holds the hashes of its endpoints; a reader that has
\* resolved the object of Edge(a, b) has fetched both endpoint objects from
\* the vertex directory and holds Edge(a, b), a first and b second; and a
\* read in which an endpoint object is absent does not succeed.
C10_EdgeReadBack ==
    \A c \in Calls :
        call[c].op \in {"read_graph", "load_graph"} =>
            \A i \in DOMAIN call[c].est :
                /\ call[c].est[i].pc = "done" =>
                      \E e \in AllEdges :
                         /\ call[c].ehash_vec[i] = edge_to_file(e).hash
                         /\ call[c].est[i].edge = e
                         /\ call[c].est[i].from = vertex_to_file(e[1]).hash
                         /\ call[c].est[i].to = vertex_to_file(e[2]).hash
                         /\ {<<"vertex", to_string(call[c].est[i].from)>>,
                             <<"vertex", to_string(call[c].est[i].to)>>} \subseteq call[c].gets
                /\ (/\ call[c].est[i].pc # "edge"
                    /\ \/ to_string(call[c].est[i].from) \notin DOMAIN fs["vertex"]
                       \/ to_string(call[c].est[i].to) \notin DOMAIN fs["vertex"]) =>
                      /\ call[c].est[i].pc # "done"
                      /\ call[c].pc = "done" => ~call[c].result.ok

\* The object of Edge(2, 1) has been resolved to Edge(2, 1).
C10_Witness ==
    \E c \in Calls :
        /\ Done(c, "read_graph")
        /\ call[c].result.ok
        /\ \E i \in DOMAIN call[c].est :
             /\ call[c].est[i].pc = "done"
             /\ call[c].est[i].edge = <<2, 1>>
        /\ call[c].result.val.edges = {<<2, 1>>}

\* Every hash that a manifest stored in mdir lists is the name of an
\* object stored in odir.
ManifestComplete(mdir, odir) ==
    \A k \in DOMAIN fs[mdir] :
        LET hash_vec == file_to_hash_vec(fs[mdir][k])
        IN  /\ hash_vec.ok
            /\ \A i \in DOMAIN hash_vec.val : to_string(hash_vec.val[i]) \in DOMAIN fs[odir]

\* C11: a save reaches the put of a manifest only with the put of every
\* vertex (edge) of the call completed, so every hash listed by a manifest in
\* the store names an object that is already in the object directory.
C11_ManifestAfterPuts ==
    /\ ManifestComplete("vertexvec", "vertex")
    /\ ManifestComplete("edgevec", "edge")
    /\ \A c \in Calls :
         call[c].op = "save_graph_as" =>
            /\ call[c].vpc \in {"mkvec", "putvec", "done"} =>
                  /\ DOMAIN call[c].vslots = DOMAIN call[c].vertices
                  /\ \A i \in DOMAIN call[c].vslots :
                        to_string(call[c].vslots[i]) \in DOMAIN fs["vertex"]
            /\ call[c].epc \in {"mkvec", "putvec", "done"} =>
                  /\ DOMAIN call[c].eslots = DOMAIN call[c].edges
                  /\ \A i \in DOMAIN call[c].eslots :
                        to_string(call[c].eslots[i]) \in DOMAIN fs["edge"]

\* A manifest of two vertices and a manifest of one edge are in the store,
\* written by a save that iterated vertex 2 before vertex 1.
C11_Witness ==
    \E c \in Calls :
        /\ call[c].op = "save_graph_as"
        /\ call[c].vpc = "done"
        /\ call[c].epc = "done"
        /\ call[c].vertices = <<2, 1>>
        /\ Len(call[c].edges) = 1
        /\ to_string(call[c].vhash) \in DOMAIN fs["vertexvec"]
        /\ to_string(call[c].ehash) \in DOMAIN fs["edgevec"]

\* The reads of a call that belong to edge reconstruction alone: of the
\* edge manifest and of edge objects.
EdgeSideGets(c) == {g \in call[c].gets : g[1] \in {"edgevec", "edge"}}

\* C12 as stated: edge reconstruction runs concurrently with vertex
\* reconstruction, so while a read_graph still has vertices of its manifest
\* to fetch, the fetch of the edge manifest can be its next step.
C12_EdgeSideStartsEarly ==
    \A c \in Calls :
        (Reading(c, "vvec") \/ Reading(c, "vertices")) => ENABLED read_edge_hash_vec(c)

\* C12, amended: read_graph runs vertex reconstruction, then edge
\* reconstruction; a call that has made an edge-side read has read the
\* vertex manifest and every vertex the manifest lists before.
C12_VerticesBeforeEdges ==
    \A c \in Calls :
        (call[c].op \in {"read_graph", "load_graph"} /\ EdgeSideGets(c) # {}) =>
            /\ <<"vertexvec", to_string(call[c].graph_hash.vertex_vec_hash)>> \in call[c].gets
            /\ DOMAIN call[c].vslots = DOMAIN call[c].hash_vec
            /\ \A i \in DOMAIN call[c].hash_vec :
                  <<"vertex", to_string(call[c].hash_vec[i])>> \in call[c].gets
            /\ Range(call[c].vslots) \subseteq call[c].graph.vertices

\* A read of a manifest of two vertices has gone on to read the edge
\* manifest and an edge object.
C12_Witness ==
    \E c \in Calls :
        /\ call[c].op = "read_graph"
        /\ Len(call[c].hash_vec) = 2
        /\ \E g \in EdgeSideGets(c) : g[1] = "edge"

\* The edge object stored under key k names two stored vertex objects.
HashEdgeValid(k) ==
    LET hash_edge == file_to_hash_edge(fs["edge"][k])
    IN  /\ hash_edge.ok
        /\ to_string(hash_edge.val.from) \in DOMAIN fs["vertex"]
        /\ to_string(hash_edge.val.to) \in DOMAIN fs["vertex"]

\* C13 as stated: in every state, during and after write_graph, every edge
\* object in the edge directory names two vertex objects that are in the
\* vertex directory.
C13_HashEdgeAlwaysValid == \A k \in DOMAIN fs["edge"] : HashEdgeValid(k)

\* C13, amended: once a write_graph has completed with a root, every edge
\* object that the edge manifest of the root lists is stored and names two
\* stored vertex objects.
C13_HashEdgeValidWhenWritten ==
    \A w \in returned :
        LET hash_vec == file_to_hash_vec(fs["edgevec"][to_string(w.root.edge_vec_hash)])
        IN  /\ hash_vec.ok
            /\ Len(hash_vec.val) = Len(w.edges)
            /\ \A i \in DOMAIN hash_vec.val :
                  /\ to_string(hash_vec.val[i]) \in DOMAIN fs["edge"]
                  /\ HashEdgeValid(to_string(hash_vec.val[i]))

\* A write_graph of a graph with an edge has completed, while the edge
\* object left by a save that failed still names a vertex object that was
\* never stored.
C13_Witness ==
    /\ \E w \in returned : w.edges # <<>>
    /\ \E k \in DOMAIN fs["edge"] : ~HashEdgeValid(k)

\* A step of write_graph_edges of call c.
WriteEdgesStep(c) ==
    \/ write_graph_edges(c)
    \/ write_all_edges_to_files(c)
    \/ \E i \in 1..MaxEdgesAlone : write_edge(c, i)
    \/ write_edge_hash_vec_dir(c)
    \/ write_edge_hash_vec_file(c)

\* C14: a step of write_graph_edges writes files only in the edge and the
\* edge manifest directories: the vertex directory, the vertex manifest
\* directory and the names are as before, and none of their directories is
\* created.
C14_WriteEdgesFrame ==
    [][\A c \in Calls :
          WriteEdgesStep(c) =>
             /\ fs'["vertex"] = fs["vertex"]
             /\ fs'["vertexvec"] = fs["vertexvec"]
             /\ fs'["graph"] = fs["graph"]
             /\ dirs' \ dirs \subseteq {"base", "edge", "edgevec"}
             /\ saved' = saved]_vars

\* The edge side of a save has written the object and the manifest of an
\* edge while the vertex side has not taken a step: no vertex file exists.
C14_Witness ==
    \E c \in Calls :
        /\ Writing(c)
        /\ call[c].epc = "done"
        /\ call[c].vpc = "mkbase"
        /\ call[c].edges # <<>>
        /\ fs["edge"] # <<>>
        /\ fs["edgevec"] # <<>>
        /\ fs["vertex"] = <<>>
        /\ fs["vertexvec"] = <<>>

\* C15: whatever the order in which the writes of the join_all completed,
\* the manifest a save has written lists at position i the hash of the
\* object of the i-th vertex (edge) of the vector the save iterated.
C15_ManifestInInputOrder ==
    \A c \in Calls :
        call[c].op = "save_graph_as" =>
            /\ call[c].vpc = "done" =>
                  LET hash_vec == file_to_hash_vec(fs["vertexvec"][to_string(call[c].vhash)])
                  IN  /\ hash_vec.ok
                      /\ Len(hash_vec.val) = Len(call[c].vertices)
                      /\ \A i \in DOMAIN hash_vec.val :
                            file_to_vertex(fs["vertex"][to_string(hash_vec.val[i])])
                               = Ok(call[c].vertices[i])
            /\ call[c].epc = "done" =>
                  LET hash_vec == file_to_hash_vec(fs["edgevec"][to_string(call[c].ehash)])
                  IN  /\ hash_vec.ok
                      /\ Len(hash_vec.val) = Len(call[c].edges)
                      /\ \A i \in DOMAIN hash_vec.val :
                            fs["edge"][to_string(hash_vec.val[i])]
                               = edge_to_file(call[c].edges[i]).content

\* Both manifests of a save are written; the write of the second vertex
\* and the write of the second edge had completed before those of the first.
C15_Witness ==
    \E c \in Calls :
        /\ call[c].op = "save_graph_as"
        /\ call[c].vpc = "done"
        /\ call[c].epc = "done"
        /\ call[c].vorder = <<2, 1>>
        /\ call[c].eorder = <<2, 1>>

\* A save that ended before it came to the write of its name file.
FailedBeforeName(c) ==
    /\ Done(c, "save_graph_as")
    /\ call[c].content = NoResult

\* C16: a save in which the creation of a directory or the write of a
\* vertex, an edge or a manifest fails ends with that step, in an error,
\* without a GraphHash to write; a side that had not finished has not written
\* its manifest, and the name files are those of the start of the call.
C16_FailedSaveAborts ==
    /\ [](\A c \in Calls :
            FailedBeforeName(c) =>
               /\ ~call[c].result.ok
               /\ fs["graph"] = call[c].before["graph"]
               /\ call[c].vpc # "done" => fs["vertexvec"] = call[c].before["vertexvec"]
               /\ call[c].epc # "done" => fs["edgevec"] = call[c].before["edgevec"])
    /\ [][\A c \in Calls :
            (call[c].op = "save_graph_as" /\ call'[c] # call[c]
               /\ budget'.faults < budget.faults) =>
               /\ call'[c].pc = "done"
               /\ ~call'[c].result.ok
               /\ fs' = fs
               /\ saved' = saved]_vars

\* The second save of a name failed at the write of its vertex manifest,
\* with the edge side finished: the name file of the first save is there,
\* the new vertex manifest is not.
C16_Witness ==
    \E c \in Calls :
        /\ FailedBeforeName(c)
        /\ call[c].vpc = "putvec"
        /\ call[c].epc = "done"
        /\ call[c].name \in DOMAIN call[c].before["graph"]
        /\ fs["graph"] = call[c].before["graph"]
        /\ to_string(hash_vec_to_file(call[c].vslots).hash) \notin DOMAIN fs["vertexvec"]

\* A manifest that the root names, or an object that one of its manifests
\* lists, is not in the store.
ListedObjectAbsent(files, root) ==
    LET vkey == to_string(root.vertex_vec_hash)
        ekey == to_string(root.edge_vec_hash)
        Absent(dir, hash_vec) ==
            \E i \in DOMAIN hash_vec : to_string(hash_vec[i]) \notin DOMAIN files[dir]
    IN  \/ vkey \notin DOMAIN files["vertexvec"]
        \/ ~file_to_hash_vec(files["vertexvec"][vkey]).ok
        \/ Absent("vertex", file_to_hash_vec(files["vertexvec"][vkey]).val)
        \/ ekey \notin DOMAIN files["edgevec"]
        \/ ~file_to_hash_vec(files["edgevec"][ekey]).ok
        \/ Absent("edge", file_to_hash_vec(files["edgevec"][ekey]).val)

\* C17: whatever saves have run, overlapped or failed, a name file holds
\* a GraphHash whose two manifests are stored, with every object they list.
C17_NamedRootComplete ==
    \A name \in DOMAIN fs["graph"] :
        LET graph_hash == deserialize_graph_hash(fs["graph"][name])
        IN  /\ graph_hash.ok
            /\ ~ListedObjectAbsent(fs, graph_hash.val)

\* One save has written the name file; the other, which ran in the other
\* slot, failed and left an edge object whose vertex object is not stored.
C17_Witness ==
    /\ fs["graph"] # <<>>
    /\ \E c, d \in Calls :
         /\ Done(c, "save_graph_as") /\ call[c].result.ok
         /\ Done(d, "save_graph_as") /\ ~call[d].result.ok
         /\ call[c].edges # <<>>
         /\ call[d].epc = "done"
    /\ \E k \in DOMAIN fs["edge"] : ~HashEdgeValid(k)

\* C18: when two saves of one name, of different graphs, have both
\* completed, however they overlapped, the name file holds the GraphHash that
\* the save which wrote it last got from its own write_graph, and a load that
\* reads the name file then returns the graph of that save; a vertex the two
\* graphs share is stored once, with the bytes of vertex_to_file.
C18_ConcurrentSaves ==
    \A name \in Names :
        Len(saved[name]) = 2 =>
            LET first == saved[name][1]
                last  == saved[name][2]
            IN  /\ fs["graph"][name] = serialize_graph_hash(last.root)
                /\ \E w \in returned : w.graph = last.graph /\ w.root = last.root
                /\ \A c \in Calls :
                      (/\ Done(c, "load_graph")
                       /\ call[c].name = name
                       /\ call[c].expect.version = 2) => call[c].result = Ok(last.graph)
                /\ \A v \in first.graph.vertices \cap last.graph.vertices :
                      /\ Cardinality(VertexObjectsOf(v)) = 1
                      /\ fs["vertex"][to_string(vertex_to_file(v).hash)]
                            = vertex_to_file(v).content

\* Two saves of one name, of different graphs that share vertex 1, have
\* overlapped: the one that wrote the name file last had started when there
\* was no name file.  The load has returned its graph.
C18_Witness ==
    \E c, d \in Calls :
        /\ Done(c, "load_graph")
        /\ call[c].expect.version = 2
        /\ call[c].result.ok
        /\ Done(d, "save_graph_as")
        /\ call[d].result.ok
        /\ call[d].before["graph"] = <<>>
        /\ Len(saved[call[d].name]) = 2
        /\ saved[call[d].name][2].graph = call[d].graph
        /\ saved[call[d].name][1].graph # call[d].graph
        /\ 1 \in saved[call[d].name][1].graph.vertices \cap call[d].graph.vertices
        /\ call[c].result.val = call[d].graph

\* C19: every file in the vertex, edge, vertexvec and edgevec directories
\* is named by the hash of its own content, and no step removes such a file
\* or changes its content.
C19_ObjectsImmutable ==
    /\ [](\A dir \in ObjectDirs :
            \A k \in DOMAIN fs[dir] : k = to_string(HashFrom(fs[dir][k])))
    /\ [][\A dir \in ObjectDirs :
            \A k \in DOMAIN fs[dir] :
               k \in DOMAIN fs'[dir] /\ fs'[dir][k] = fs[dir][k]]_vars

\* Two saves of different graphs with vertex 1 have completed: the object
\* of vertex 1 was written twice, and the store holds it with an edge object
\* and the edge manifests of both saves.
C19_Witness ==
    /\ \E name \in Names :
         /\ Len(saved[name]) = 2
         /\ saved[name][1].graph # saved[name][2].graph
         /\ 1 \in saved[name][1].graph.vertices \cap saved[name][2].graph.vertices
    /\ to_string(vertex_to_file(1).hash) \in DOMAIN fs["vertex"]
    /\ fs["edge"] # <<>>
    /\ Cardinality(DOMAIN fs["edgevec"]) = 2

\* C20: a read_graph of a root all of whose objects are stored succeeds
\* and returns every edge of the edge manifest, also an edge whose endpoints
\* the vertex manifest of the root does not list.
C20_EdgeEndsNotChecked ==
    \A c \in Calls :
        (Done(c, "read_graph") /\ ~SomeObjectAbsent(fs, call[c].graph_hash)) =>
            /\ call[c].result.ok
            /\ \A e \in AllEdges :
                  edge_to_file(e).hash \in Range(call[c].ehash_vec) =>
                     e \in call[c].result.val.edges

\* The root had the manifest of no vertex and the manifest of Edge(1, 2):
\* the read has returned Edge(1, 2).
C20_Witness ==
    \E c \in Calls :
        /\ Done(c, "read_graph")
        /\ call[c].result.ok
        /\ call[c].hash_vec = <<>>
        /\ call[c].vslots = <<>>
        /\ call[c].result.val.edges = {<<1, 2>>}
        /\ vertex_to_file(1).hash \notin Range(call[c].hash_vec)

\* C21: every save_graph_as, read_graph or load_graph that has started
\* comes to its end, with its result or with an error, as long as its future
\* is polled and every I/O call returns.
C21_CallsFinish ==
    \A c \in Calls : (call[c].op # "idle") ~> (call[c].op # "idle" /\ call[c].pc = "done")

\* A save has ended with the error of a failed vertex write while its edge
\* side had not finished: it did not wait for the sibling.
C21_Witness ==
    \E c \in Calls :
        /\ Done(c, "save_graph_as")
        /\ ~call[c].result.ok
        /\ call[c].vpc = "puts"
        /\ call[c].epc \in {"mkbase", "mkdir", "puts", "mkvec", "putvec"}

=============================================================================
